---- MODULE Spec2Model ----
(***************************************************************************)
(* tesseracttrainer: the training pipeline of model_trainer.py             *)
(* (ModelTrainer) and the ground-truth pair browser of                     *)
(* tesseracttrainer.py (ImageTextWindow), over one shared ground-truth     *)
(* directory.                                                              *)
(***************************************************************************)
EXTENDS Integers, Sequences, FiniteSets, TLC

\* ------------------------------------------------------------------ bounds
\* Longest ground-truth transcription, in characters.
MaxLen == 3
\* Output lines the external processes of one pipeline run write together.
MaxOut == 1

\* Base names of the files of the ground-truth directory.
Names == {"a", "b"}
\* Characters of a transcription: a letter, a blank, a line break.
Chars == {"x", " ", "\n"}
\* Exit statuses of an external command.
ExitCodes == {0, 1}

ImageExts == {"tif", "png"}
NoArg == <<>>

VARIABLES
    \* the ground-truth directory (base_dir)
    files,          \* set of <<base name, extension>>
    gtText,         \* content of <name>.gt.txt, a sequence of characters
    corrupt,        \* image files PIL cannot open
    manifest,       \* lines of all-lstmf-list.txt (base names of .lstmf files)
    removed_pairs,  \* lines of removed_pairs.txt
    \* the output directory (finetuned_dir)
    dirExists,      \* <base_dir>/<model>_finetuned exists
    logExists,      \* <model>_finetuned.log exists
    logFile,        \* its lines
    \* ModelTrainer.train_model
    pc,             \* the statement train_model runs next
    steps,          \* the step functions entered so far, by number
    todo,           \* images a running for-loop over os.listdir still visits
    rpc,            \* position inside run_command: "none" or "read"
    handle,         \* log_file of run_command: "closed", "open", "orphan"
    procs,          \* every process spawned, in spawn order
    console,        \* lines printed to the console
    logger,         \* loguru records
    \* ImageTextWindow
    gui,            \* "start", "ready" or "crashed" (__init__ raised)
    file_base_names,
    current_index,
    editor,         \* text of the QLineEdit
    shown,          \* base name whose image is displayed, "" for none
    lastOp,         \* the last slot that ran
    raised          \* the exception the last slot left uncaught, "" for none

fsVars == <<files, gtText, corrupt, manifest, removed_pairs>>
outVars == <<dirExists, logExists, logFile>>
trainVars == <<pc, steps, todo, rpc, handle, procs, console, logger>>
guiVars == <<gui, file_base_names, current_index, editor, shown, lastOp,
            raised>>
vars == <<fsVars, outVars, trainVars, guiVars>>

\* ------------------------------------------------------- Python strings
Texts == UNION {[1..k -> Chars] : k \in 0..MaxLen}

IsSpace(c) == c \in {" ", "\n"}

RECURSIVE LStrip(_)
LStrip(s) ==
    IF s = <<>> THEN s
    ELSE IF IsSpace(Head(s)) THEN LStrip(Tail(s)) ELSE s

RECURSIVE RStrip(_)
RStrip(s) ==
    IF s = <<>> THEN s
    ELSE IF IsSpace(s[Len(s)]) THEN RStrip(SubSeq(s, 1, Len(s) - 1)) ELSE s

\* str.strip()
Strip(s) == RStrip(LStrip(s))

\* str.split("\n"): never an empty list, "" splits to [""]
RECURSIVE Split(_)
Split(s) ==
    IF \A i \in 1..Len(s) : s[i] # "\n" THEN <<s>>
    ELSE LET i == CHOOSE j \in 1..Len(s) :
                      s[j] = "\n" /\ \A k \in 1..(j - 1) : s[k] # "\n"
         IN <<SubSeq(s, 1, i - 1)>> \o Split(SubSeq(s, i + 1, Len(s)))

\* unicodedata.normalize("NFC", .) and bidi get_display: both leave a text of
\* Chars (ASCII, left to right) as it is.
Display(s) == s

\* ------------------------------------------------------- the directory
Images(fs) == {f \in fs : f[2] \in ImageExts}
Pair(n) == {<<n, "tif">>, <<n, "gt.txt">>}

\* One iteration of generate_box_files: "written", "skipped" or "error".
BoxOutcome(fs, text, bad, img) ==
    IF img \in bad THEN "error"
    ELSE IF <<img[1], "gt.txt">> \notin fs THEN "error"
    ELSE LET lines == Split(Strip(text[img[1]]))
         IN IF Len(lines) # 1 THEN "error"
            ELSE IF Display(Strip(lines[1])) # <<>> THEN "written"
            ELSE "skipped"

\* ------------------------------------------------------- run_command
Cmd(prog, arg) == [prog |-> prog, arg |-> arg]
Line(p, k) == <<p, k>>
Cur == Len(procs)

RECURSIVE Emitted(_)
Emitted(ps) ==
    IF ps = <<>> THEN 0 ELSE ps[Len(ps)].n + Emitted(SubSeq(ps, 1, Len(ps) - 1))

\* run_command with the exit status ignored: every command is reported as
\* completed.
CompletionRecordSilent(rc, cmd) ==
    [what |-> "command completed", rc |-> 0, cmd |-> cmd]

\* The record run_command logs when the process has ended.
CompletionRecord(rc, cmd) ==
    IF rc # 0 THEN [what |-> "command failed", rc |-> rc, cmd |-> cmd]
    ELSE [what |-> "command completed", rc |-> 0, cmd |-> cmd]

\* run_command that returns as soon as the process is spawned.
WaitDoneNoWait(p) == TRUE

\* The for-loop over process.stdout ends at end of file and process.wait()
\* returns when the process has exited.
WaitDone(p) == p.state = "exited" /\ p.out = <<>>

\* run_command up to the point where it blocks on the pipe, or the
\* FileNotFoundError of open() when the output directory is missing: caught
\* by the caller's try/except (caught) or leaving train_model.
run_command(cmd, caught, cont) ==
    IF dirExists
    THEN /\ procs' = Append(procs, [cmd |-> cmd, state |-> "running",
                                    rc |-> -1, n |-> 0, out |-> <<>>])
         /\ handle' = "open"
         /\ logExists' = TRUE
         /\ rpc' = "read"
         /\ pc' = cont
         /\ UNCHANGED <<logger, logFile, dirExists>>
    ELSE /\ pc' = IF caught THEN cont ELSE "failed"
         /\ logger' = IF caught
                      THEN Append(logger, [what |-> "step failed", rc |-> -1,
                                           cmd |-> cmd])
                      ELSE logger
         /\ UNCHANGED <<procs, handle, rpc, outVars>>

RunRead ==
    /\ rpc = "read"
    /\ procs[Cur].out # <<>>
    /\ LET line == Head(procs[Cur].out)
       IN /\ console' = Append(console, line)
          /\ logFile' = IF handle = "open" THEN Append(logFile, line)
                        ELSE logFile
    /\ procs' = [procs EXCEPT ![Cur].out = Tail(@)]
    /\ UNCHANGED <<fsVars, guiVars, dirExists, logExists, pc, steps, todo,
                   rpc, handle, logger>>

RunReturn ==
    /\ rpc = "read"
    /\ WaitDone(procs[Cur])
    /\ logger' = Append(logger, CompletionRecord(procs[Cur].rc, procs[Cur].cmd))
    /\ handle' = "closed"
    /\ rpc' = "none"
    /\ UNCHANGED <<fsVars, guiVars, outVars, pc, steps, todo, procs, console>>

\* ------------------------------------------------- the external processes
ProcEmit(p) ==
    /\ procs[p].state = "running"
    /\ Emitted(procs) < MaxOut
    /\ procs' = [procs EXCEPT ![p].n = @ + 1,
                              ![p].out = Append(@, Line(p, procs[p].n + 1))]
    /\ UNCHANGED <<fsVars, guiVars, outVars, pc, steps, todo, rpc, handle,
                   console, logger>>

Lstmfs(fs) == {f[1] : f \in {g \in fs : g[2] = "lstmf"}}

\* tesseract <image> <base> --psm 6 lstm.train writes <base>.lstmf
TesseractEffect(fs, img, rc) ==
    IF rc = 0 THEN fs \cup {<<img[1], "lstmf">>} ELSE fs

\* find <dir> -name '*.lstmf' > all-lstmf-list.txt: the shell truncates the
\* list, find writes the name of every .lstmf file the directory holds
FindEffect(fs, rc) == IF rc = 0 THEN Lstmfs(fs) ELSE {}

\* A process ends with status rc. gone: rm -rf <finetuned_dir>/* unlinked the
\* log file (always when it succeeds).
ProcExit(p, rc, gone) ==
    /\ procs[p].state = "running"
    /\ procs' = [procs EXCEPT ![p].state = "exited", ![p].rc = rc]
    /\ LET c == procs[p].cmd
       IN /\ files' = IF c.prog = "tesseract"
                      THEN TesseractEffect(files, c.arg, rc) ELSE files
          /\ manifest' = IF c.prog = "find" THEN FindEffect(files, rc)
                         ELSE manifest
          /\ IF c.prog = "rm" /\ (gone \/ rc = 0)
             THEN /\ logExists' = FALSE
                  /\ logFile' = <<>>
                  /\ handle' = IF handle = "open" THEN "orphan" ELSE handle
             ELSE /\ (gone => c.prog = "rm")
                  /\ UNCHANGED <<logExists, logFile, handle>>
    /\ UNCHANGED <<gtText, corrupt, removed_pairs, guiVars, dirExists, pc,
                   steps, todo, rpc, console, logger>>

\* ------------------------------------------------------- train_model
Enter(step) == steps' = Append(steps, step)
Idle == rpc = "none"

extract_base_lstm ==
    /\ pc = "extract" /\ Idle
    /\ Enter(1)
    /\ run_command(Cmd("combine_tessdata", NoArg), TRUE, "prepare")
    /\ UNCHANGED <<fsVars, guiVars, todo, console>>

prepare_directories ==
    /\ pc = "prepare" /\ Idle
    /\ Enter(2)
    /\ dirExists' = TRUE
    /\ pc' = "box"
    /\ UNCHANGED <<fsVars, guiVars, logExists, logFile, todo, rpc, handle,
                   procs, console, logger>>

generate_box_files ==
    /\ pc = "box" /\ Idle
    /\ Enter(3)
    /\ todo' = Images(files)
    /\ pc' = "box_loop"
    /\ UNCHANGED <<fsVars, guiVars, outVars, rpc, handle, procs, console,
                   logger>>

box_image(img) ==
    /\ pc = "box_loop" /\ Idle
    /\ img \in todo
    /\ todo' = todo \ {img}
    /\ LET o == BoxOutcome(files, gtText, corrupt, img)
       IN /\ files' = IF o = "written" THEN files \cup {<<img[1], "box">>}
                      ELSE files
          /\ logger' = IF o = "skipped" THEN logger
                       ELSE Append(logger,
                                [what |-> IF o = "written" THEN "box generated"
                                          ELSE "box failed",
                                 rc |-> -1, cmd |-> Cmd("box", img)])
    /\ UNCHANGED <<gtText, corrupt, manifest, removed_pairs, guiVars, outVars,
                   pc, steps, rpc, handle, procs, console>>

generate_lstmf_files ==
    /\ pc = "box_loop" /\ Idle
    /\ todo = {}
    /\ Enter(4)
    /\ todo' = Images(files)
    /\ pc' = "lstmf_loop"
    /\ UNCHANGED <<fsVars, guiVars, outVars, rpc, handle, procs, console,
                   logger>>

lstmf_image(img) ==
    /\ pc = "lstmf_loop" /\ Idle
    /\ img \in todo
    /\ todo' = todo \ {img}
    /\ run_command(Cmd("tesseract", img), FALSE, "lstmf_loop")
    /\ UNCHANGED <<fsVars, guiVars, steps, console>>

lstmf_list ==
    /\ pc = "lstmf_loop" /\ Idle
    /\ todo = {}
    /\ run_command(Cmd("find", NoArg), FALSE, "unicharset")
    /\ UNCHANGED <<fsVars, guiVars, steps, todo, console>>

generate_unicharset ==
    /\ pc = "unicharset" /\ Idle
    /\ Enter(5)
    /\ run_command(Cmd("unicharset_extractor", NoArg), TRUE, "train")
    /\ UNCHANGED <<fsVars, guiVars, todo, console>>

\* train(iterations=1000): remove_old keeps its default, True
train ==
    /\ pc = "train" /\ Idle
    /\ Enter(6)
    /\ run_command(Cmd("rm", NoArg), FALSE, "lstmtraining")
    /\ UNCHANGED <<fsVars, guiVars, todo, console>>

train_lstmtraining ==
    /\ pc = "lstmtraining" /\ Idle
    /\ run_command(Cmd("lstmtraining", NoArg), TRUE, "convert")
    /\ UNCHANGED <<fsVars, guiVars, steps, todo, console>>

convert_checkpoint_to_traineddata ==
    /\ pc = "convert" /\ Idle
    /\ Enter(7)
    /\ run_command(Cmd("lstmtraining --stop_training", NoArg), TRUE, "evaluate")
    /\ UNCHANGED <<fsVars, guiVars, todo, console>>

evaluate_model ==
    /\ pc = "evaluate" /\ Idle
    /\ Enter(8)
    /\ run_command(Cmd("lstmeval", NoArg), TRUE, "done")
    /\ UNCHANGED <<fsVars, guiVars, todo, console>>

\* ------------------------------------------------ the pipeline, step by step
GuiIdle ==
    /\ gui = "ready" /\ file_base_names = <<>> /\ current_index = 0
    /\ editor = <<>> /\ shown = "" /\ lastOp = "" /\ raised = ""

\* A job on a directory of ground-truth pairs; the output directory is
\* missing (a fresh job) or left by an earlier run, with a line in its log.
Init ==
    /\ \E S \in {{"a"}, Names} : files = UNION {Pair(n) : n \in S}
    /\ gtText = [n \in Names |-> <<"x">>]
    /\ corrupt = {}
    /\ manifest = {}
    /\ removed_pairs = <<>>
    /\ dirExists \in BOOLEAN
    /\ logExists = dirExists
    /\ logFile = IF logExists THEN <<Line(0, 1)>> ELSE <<>>
    /\ pc = "extract" /\ steps = <<>> /\ todo = {} /\ rpc = "none"
    /\ handle = "closed" /\ procs = <<>> /\ console = <<>> /\ logger = <<>>
    /\ GuiIdle

\* The statements of train_model and of the step functions it calls.
TrainModelStep ==
    \/ extract_base_lstm
    \/ prepare_directories
    \/ generate_box_files
    \/ \E img \in todo : box_image(img)
    \/ generate_lstmf_files
    \/ \E img \in todo : lstmf_image(img)
    \/ lstmf_list
    \/ generate_unicharset
    \/ train
    \/ train_lstmtraining
    \/ convert_checkpoint_to_traineddata
    \/ evaluate_model

Next ==
    \/ TrainModelStep
    \/ RunRead
    \/ RunReturn
    \/ \E p \in 1..Len(procs) : ProcEmit(p)
    \/ \E p \in 1..Len(procs), rc \in ExitCodes, gone \in BOOLEAN :
           ProcExit(p, rc, gone)

Spec == Init /\ [][Next]_vars

\* ------------------------------------------------------- ImageTextWindow
\* The orders os.listdir can give the files get_file_base_names looks at.
Listings(fs) ==
    LET S == {f \in fs : f[2] \in {"tif", "gt.txt"}}
    IN {l \in [1..Cardinality(S) -> S] :
            \A i, j \in 1..Cardinality(S) : i # j => l[i] # l[j]}

\* get_file_base_names over one listing: the base names of the .tif files in
\* listing order, or FileNotFoundError (ok = FALSE) at the first .tif without
\* a .gt.txt or .gt.txt without a .tif.
RECURSIVE Discover(_, _, _)
Discover(listing, fs, acc) ==
    IF listing = <<>> THEN [ok |-> TRUE, names |-> acc]
    ELSE LET f == Head(listing)
         IN IF f[2] = "tif"
            THEN IF <<f[1], "gt.txt">> \in fs
                 THEN Discover(Tail(listing), fs, Append(acc, f[1]))
                 ELSE [ok |-> FALSE, names |-> <<>>]
            ELSE IF f[2] = "gt.txt"
            THEN IF <<f[1], "tif">> \in fs
                 THEN Discover(Tail(listing), fs, acc)
                 ELSE [ok |-> FALSE, names |-> <<>>]
            ELSE Discover(Tail(listing), fs, acc)

get_file_base_names(listing, fs) == Discover(listing, fs, <<>>)

Range(s) == {s[i] : i \in 1..Len(s)}

\* is_removed_pair
is_removed_pair(rp, n) == n \in Range(rp)

\* log_removed_pair without its look at the lines already there.
log_removed_pair_always(rp, n) == Append(rp, n)

\* log_removed_pair: the lines of removed_pairs.txt afterwards
log_removed_pair(rp, n) == IF n \notin Range(rp) THEN Append(rp, n) ELSE rp

\* load_pair: what is displayed afterwards and the exception it raises. A
\* tombstoned pair is not loaded. (Base names hold no dot, so the splitext
\* of load_pair leaves them alone.)
load_pair(n, fs, text, rp, sh, ed) ==
    IF is_removed_pair(rp, n) THEN [shown |-> sh, editor |-> ed, raised |-> ""]
    ELSE IF <<n, "tif">> \notin fs
    THEN [shown |-> sh, editor |-> ed, raised |-> "FileNotFoundError"]
    ELSE IF <<n, "gt.txt">> \notin fs
    THEN [shown |-> n, editor |-> ed, raised |-> "FileNotFoundError"]
    ELSE [shown |-> n, editor |-> text[n], raised |-> ""]

\* del list[i], i counted from 0
DelAt(s, i) == SubSeq(s, 1, i) \o SubSeq(s, i + 2, Len(s))

InRange(i, s) == 0 <= i /\ i < Len(s)

\* lastOp after the Remove button: "remove again" when the slot before it was
\* the Remove button too.
RemoveOps == {"remove", "remove again"}

Op(name) == lastOp' = name

\* __init__: discovery, then the first pair is loaded
window_init ==
    /\ gui = "start"
    /\ Op("init")
    /\ \E listing \in Listings(files) :
         LET d == get_file_base_names(listing, files)
         IN IF ~d.ok
            THEN /\ gui' = "crashed"
                 /\ raised' = "FileNotFoundError"
                 /\ UNCHANGED <<file_base_names, current_index, editor, shown>>
            ELSE /\ file_base_names' = d.names
                 /\ current_index' = 0
                 /\ IF d.names # <<>>
                    THEN LET l == load_pair(d.names[1], files, gtText,
                                            removed_pairs, shown, editor)
                         IN /\ shown' = l.shown /\ editor' = l.editor
                            /\ raised' = l.raised
                            /\ gui' = IF l.raised = "" THEN "ready"
                                      ELSE "crashed"
                    ELSE /\ gui' = "ready" /\ raised' = ""
                         /\ UNCHANGED <<editor, shown>>
    /\ UNCHANGED <<fsVars, outVars, trainVars>>

\* The user types into the text editor (a QLineEdit holds one line).
type_text(t) ==
    /\ gui = "ready"
    /\ editor # t
    /\ Op("type")
    /\ editor' = t
    /\ raised' = ""
    /\ UNCHANGED <<fsVars, outVars, trainVars, gui, file_base_names,
                   current_index, shown>>

\* load_previous (step = -1) and load_next (step = 1)
fetch_current_pair(step) ==
    IF ~InRange(current_index, file_base_names)
    THEN /\ raised' = "IndexError"
         /\ UNCHANGED <<fsVars, current_index, editor, shown>>
    ELSE LET n == file_base_names[current_index + 1]
             fs == files \cup {<<n, "gt.txt">>}
             text == [gtText EXCEPT ![n] = editor]
             new_index == current_index + step
         IN /\ files' = fs
            /\ gtText' = text
            /\ UNCHANGED <<corrupt, manifest, removed_pairs>>
            /\ IF InRange(new_index, file_base_names)
               THEN LET l == load_pair(file_base_names[new_index + 1], fs, text,
                                       removed_pairs, shown, editor)
                    IN /\ current_index' = new_index
                       /\ shown' = l.shown /\ editor' = l.editor
                       /\ raised' = l.raised
               ELSE raised' = "" /\ UNCHANGED <<current_index, editor, shown>>

load_previous ==
    /\ gui = "ready"
    /\ Op("previous")
    /\ fetch_current_pair(-1)
    /\ UNCHANGED <<outVars, trainVars, gui, file_base_names>>

load_next ==
    /\ gui = "ready"
    /\ Op("next")
    /\ fetch_current_pair(1)
    /\ UNCHANGED <<outVars, trainVars, gui, file_base_names>>

remove_current_pair ==
    /\ gui = "ready"
    /\ Op(IF lastOp \in RemoveOps THEN "remove again" ELSE "remove")
    /\ IF file_base_names = <<>>
       THEN /\ raised' = ""
            /\ UNCHANGED <<fsVars, file_base_names, editor, shown>>
       ELSE IF ~InRange(current_index, file_base_names)
       THEN /\ raised' = "IndexError"
            /\ UNCHANGED <<fsVars, file_base_names, editor, shown>>
       ELSE LET n == file_base_names[current_index + 1]
                fs == files \ Pair(n)
                rp == log_removed_pair(removed_pairs, n)
                names == DelAt(file_base_names, current_index)
            IN IF Pair(n) \subseteq files
               THEN /\ files' = fs
                    /\ removed_pairs' = rp
                    /\ file_base_names' = names
                    /\ UNCHANGED <<gtText, corrupt, manifest>>
                    /\ IF names = <<>>
                       THEN shown' = "" /\ editor' = <<>> /\ raised' = ""
                       ELSE IF ~InRange(current_index, names)
                       THEN /\ raised' = "IndexError"
                            /\ UNCHANGED <<editor, shown>>
                       ELSE LET l == load_pair(names[current_index + 1], fs,
                                               gtText, rp, shown, editor)
                            IN /\ shown' = l.shown /\ editor' = l.editor
                               /\ raised' = l.raised
               ELSE /\ files' = files \ {<<n, "tif">>}
                    /\ raised' = "FileNotFoundError"
                    /\ UNCHANGED <<gtText, corrupt, manifest, removed_pairs,
                                   file_base_names, editor, shown>>
    /\ UNCHANGED <<outVars, trainVars, gui, current_index>>

\* The Train button: ModelTrainer("deu", base_path, ...).train_model() runs to
\* its end inside the slot. What it leaves in the ground-truth directory: the
\* .box files of generate_box_files, the .lstmf file of every image tesseract
\* succeeded on (ok), and the list find wrote (status rc).
BoxFiles(fs, text, bad) ==
    fs \cup {<<img[1], "box">> : img \in
                {i \in Images(fs) : BoxOutcome(fs, text, bad, i) = "written"}}

LstmfFiles(fs, ok) ==
    UNION ({fs} \cup {TesseractEffect(fs, img, 0) : img \in ok})

train_model ==
    /\ gui = "ready"
    /\ \E ok \in SUBSET Images(files), rc \in ExitCodes :
         LET fs == LstmfFiles(BoxFiles(files, gtText, corrupt), ok)
         IN /\ files' = fs
            /\ manifest' = FindEffect(fs, rc)
            /\ Op(IF rc = 0 THEN "train" ELSE "train, list failed")
    /\ raised' = ""
    /\ dirExists' = TRUE
    /\ logExists' = TRUE
    /\ UNCHANGED <<gtText, corrupt, removed_pairs, logFile, trainVars, gui,
                   file_base_names, current_index, editor, shown>>

\* Texts the user types.
EditorTexts == {<<>>, <<"x">>}

\* The window opens on any directory of images and transcriptions; a
\* tombstone file of an earlier session may name a pair that is there again.
InitGui ==
    /\ files \in SUBSET (Names \X {"tif", "png", "gt.txt"})
    /\ gtText = [n \in Names |-> <<"x">>]
    /\ corrupt = {}
    /\ manifest = {}
    /\ removed_pairs \in {<<>>} \cup {<<n>> : n \in Names}
    /\ dirExists = FALSE /\ logExists = FALSE /\ logFile = <<>>
    /\ pc = "idle" /\ steps = <<>> /\ todo = {} /\ rpc = "none"
    /\ handle = "closed" /\ procs = <<>> /\ console = <<>> /\ logger = <<>>
    /\ gui = "start" /\ file_base_names = <<>> /\ current_index = 0
    /\ editor = <<>> /\ shown = "" /\ lastOp = "" /\ raised = ""

NextGui ==
    \/ window_init
    \/ \E t \in EditorTexts : type_text(t)
    \/ load_previous
    \/ load_next
    \/ remove_current_pair
    \/ train_model

SpecGui == InitGui /\ [][NextGui]_vars

\* ---------------------------------------- generate_box_files on its own
\* Every pair of the directory with any transcription of up to MaxLen
\* characters, and images PIL can or cannot open.
InitBox ==
    /\ files = UNION {Pair(n) : n \in Names}
    /\ gtText \in [Names -> Texts]
    /\ corrupt \in SUBSET {<<n, "tif">> : n \in Names}
    /\ manifest = {}
    /\ removed_pairs = <<>>
    /\ dirExists = TRUE /\ logExists = FALSE /\ logFile = <<>>
    /\ pc = "box" /\ steps = <<1, 2>> /\ todo = {} /\ rpc = "none"
    /\ handle = "closed" /\ procs = <<>> /\ console = <<>> /\ logger = <<>>
    /\ GuiIdle

NextBox ==
    \/ generate_box_files
    \/ \E img \in todo : box_image(img)

SpecBox == InitBox /\ [][NextBox]_vars

\* ------------------------------------------------------------- properties
StepOrder == <<1, 2, 3, 4, 5, 6, 7, 8>>

\* The programs of the steps that run an external command.
StepPrograms ==
    {"combine_tessdata", "find", "unicharset_extractor", "rm", "lstmtraining",
     "lstmtraining --stop_training", "lstmeval"}

IsPrefix(a, b) == Len(a) <= Len(b) /\ SubSeq(b, 1, Len(a)) = a
IsSuffix(a, b) == Len(a) <= Len(b) /\ SubSeq(b, Len(b) - Len(a) + 1, Len(b)) = a

Running == {p \in 1..Len(procs) : procs[p].state = "running"}
Returned(p) == p < Cur \/ (p = Cur /\ Idle)
Finished == pc = "done" /\ Idle

\* The lines process p has written so far.
LinesOf(p) == [k \in 1..procs[p].n |-> Line(p, k)]

\* The lines processes 1..k have written, in emission order.
RECURSIVE LinesUpTo(_)
LinesUpTo(k) == IF k = 0 THEN <<>> ELSE LinesUpTo(k - 1) \o LinesOf(k)

LoggedFor(what, cmd) ==
    \E i \in 1..Len(logger) : logger[i].what = what /\ logger[i].cmd = cmd

\* C1: train_model runs its eight steps once each and in order, whatever the
\* output directory held before, and every step that is an external command
\* has spawned that command (and every image its tesseract run) when
\* train_model ends.
C1_EveryStepRunsItsCommand ==
    /\ pc # "failed"
    /\ IsPrefix(steps, StepOrder)
    /\ Finished =>
         /\ steps = StepOrder
         /\ \A prog \in StepPrograms :
              \E p \in 1..Len(procs) : procs[p].cmd.prog = prog
         /\ \A img \in Images(files) :
              \E p \in 1..Len(procs) : procs[p].cmd = Cmd("tesseract", img)

\* C2: a command that exits non-zero never halts the pipeline: run_command
\* has logged a "command failed" record with that exit status and that
\* command for every failed command it returned from, no exception leaves
\* train_model, the steps are entered in order, and whenever no command is
\* running train_model can take its next step, until all eight are done.
C2_NonZeroExitNeverHalts ==
    /\ pc # "failed"
    /\ IsPrefix(steps, StepOrder)
    /\ \A p \in 1..Len(procs) :
         (Returned(p) /\ procs[p].rc # 0) =>
            \E i \in 1..Len(logger) :
               logger[i] = [what |-> "command failed", rc |-> procs[p].rc,
                            cmd |-> procs[p].cmd]
    /\ Finished => steps = StepOrder
    /\ (Idle /\ pc # "done") => ENABLED TrainModelStep

\* C2 witness: train_model is done and every command it ran, the one of the
\* first step included, exited non-zero.
C2_Witness ==
    /\ Finished
    /\ procs # <<>>
    /\ procs[1].cmd.prog = "combine_tessdata"
    /\ \A p \in 1..Len(procs) : procs[p].rc # 0

\* C3: once run_command has returned, its record says "completed" exactly
\* when the exit status was 0, carries that status and the command, and every
\* line the process wrote is in the log file, in emission order.
C3_RunCommandReportsAndLogs ==
    (/\ Idle /\ procs # <<>> /\ logger # <<>>
     /\ logger[Len(logger)].what \in {"command failed", "command completed"}
     /\ logger[Len(logger)].cmd = procs[Cur].cmd)
    => /\ (logger[Len(logger)].what = "command completed") <=> (procs[Cur].rc = 0)
       /\ logger[Len(logger)].rc = procs[Cur].rc
       /\ IsSuffix(LinesOf(Cur), logFile)

\* C4: the log file is append-only: a line it holds is never removed.
C4_LogAppendOnly ==
    [][\A i \in 1..Len(logFile) :
          logExists' /\ Len(logFile') >= i /\ logFile'[i] = logFile[i]]_vars

\* C5: after generate_lstmf_files has written the list, it names exactly the
\* feature files of the images the ground-truth directory holds, whatever
\* pipeline runs and pair removals came before.
C5_ManifestMatchesImages ==
    lastOp = "train" =>
       manifest = {n \in Names : /\ <<n, "lstmf">> \in files
                                 /\ \E e \in ImageExts : <<n, e>> \in files}

\* A transcription file with no line at all, with more than one line, with
\* exactly one line that is not blank.
ZeroLines(t) == t = <<>>
MoreThanOneLine(t) == Len(Split(Strip(t))) > 1
OneNonEmptyLine(t) ==
    LET body == IF t # <<>> /\ t[Len(t)] = "\n" THEN SubSeq(t, 1, Len(t) - 1)
                ELSE t
    IN (\A i \in 1..Len(body) : body[i] # "\n") /\ Strip(body) # <<>>

\* C6: generate_box_files logs an error and writes no .box file for every
\* transcription of zero lines or of more than one line, and writes the .box
\* file of a transcription of exactly one non-empty line (of an image that
\* can be opened).
C6_BoxRejectsBadTranscriptions ==
    \A img \in Images(files) :
       (pc = "box_loop" /\ img \notin todo) =>
          /\ (ZeroLines(gtText[img[1]]) \/ MoreThanOneLine(gtText[img[1]])) =>
                /\ LoggedFor("box failed", Cmd("box", img))
                /\ ~LoggedFor("box generated", Cmd("box", img))
          /\ (OneNonEmptyLine(gtText[img[1]]) /\ img \notin corrupt) =>
                LoggedFor("box generated", Cmd("box", img))

NoDup(s) == \A i, j \in 1..Len(s) : i # j => s[i] # s[j]
Count(s, n) == Cardinality({i \in 1..Len(s) : s[i] = n})

\* C7: removed_pairs.txt never names a base name twice; the Remove button
\* deletes the two files of the current pair and nothing else, and leaves the
\* pair's base name in removed_pairs.txt exactly once, also when pressed
\* twice in succession; no other slot deletes a pair or adds a tombstone.
C7_TombstoneOnce ==
    [][/\ NoDup(removed_pairs')
       /\ IF lastOp' \in RemoveOps /\ file_base_names' # file_base_names
          THEN LET n == file_base_names[current_index + 1]
               IN /\ Count(removed_pairs', n) = 1
                  /\ Range(removed_pairs') = Range(removed_pairs) \cup {n}
                  /\ files' = files \ Pair(n)
          ELSE /\ removed_pairs' = removed_pairs
               /\ files \subseteq files']_vars

\* C7 witness: the Remove button pressed twice in succession has removed
\* both pairs, and each is tombstoned.
C7_Witness ==
    /\ lastOp = "remove again"
    /\ raised = ""
    /\ file_base_names = <<>>
    /\ Range(removed_pairs) = Names
    /\ Len(removed_pairs) = Cardinality(Names)

\* C8: when get_file_base_names returns (the window is up), every image of
\* the directory has its transcription and every transcription its image.
C8_DiscoveryFailsOnUnpaired ==
    (lastOp = "init" /\ gui = "ready") =>
       \A f \in files :
          /\ f[2] \in ImageExts => <<f[1], "gt.txt">> \in files
          /\ f[2] = "gt.txt" => \E e \in ImageExts : <<f[1], e>> \in files

\* C9: at most one external process is alive, it is the one run_command is
\* reading from, and when run_command is not running every process has
\* exited and every line written has been read from its pipe and forwarded,
\* in emission order.
C9_OneProcessAtATime ==
    /\ Cardinality(Running) <= 1
    /\ \A p \in Running : p = Cur /\ rpc = "read"
    /\ Idle => /\ \A p \in 1..Len(procs) : procs[p].out = <<>>
               /\ console = LinesUpTo(Len(procs))

\* C9 witness: a later command is running after an earlier one wrote output,
\* all of it forwarded before the later one was spawned.
C9_Witness ==
    /\ rpc = "read"
    /\ Cur >= 2
    /\ procs[Cur].state = "running"
    /\ procs[1].n >= 1
    /\ Len(console) >= 1

\* C10: while the pair list is not empty, current_index is an index of it.
C10_IndexInRange ==
    file_base_names # <<>> => InRange(current_index, file_base_names)

====
